---- MODULE Spec2Model ----
(***************************************************************************)
(* Report scoring and aggregation engine of VibeAnalyst                    *)
(* (src/DashAuditFinal.py, src/ScannerToHTML.py).                          *)
(*                                                                         *)
(* Texts are sequences of one-character strings, so the regular           *)
(* expressions of the source are evaluated character by character.        *)
(* Scores are Python floats in the source; here they are integers in      *)
(* hundredths (95.0 is 9500, the sentinel -1.0 is -100), and the argument  *)
(* of round(x, 1) is carried in thousandths, so that rounding to one      *)
(* decimal place is an actual computation.                                *)
(***************************************************************************)
EXTENDS Integers, Sequences, FiniteSets, TLC

VARIABLES
    pc,                 \* control position of the run
    md,                 \* scoring pipeline: the report text being scored
    sev,                \* scoring pipeline: severity counts of md
    severity_score,     \* scoring pipeline: ss
    self_grade_score,   \* scoring pipeline: gs
    final_score,        \* scoring pipeline: fs
    tree,               \* loader: the directory tree, path -> entry
    markdown_ok,        \* loader: whether the markdown library imports and renders
    files,              \* loader: the paths found by glob, in discovery order
    idx,                \* loader: position of the for loop in sorted(files)
    out,                \* loader: the list of ReportItem built so far
    scanner,            \* single-report scorer: the dict of compute_security_score
    DATA,               \* dashboard page: the embedded list of report records
    q_value,            \* dashboard page: value of the search box #q
    minScore,           \* dashboard page: value of the min-score slider
    chips,              \* dashboard page: the severity chips that are active
    sortBy,             \* dashboard page: value of the sort selector
    arr,                \* dashboard page: renderList's array after the filters
    list,               \* dashboard page: the rendered items, as indexes into DATA
    selected,           \* dashboard page: index of the report shown, 0 for none
    date_parses         \* dashboard page: whether Date accepts the mtime strings

vars == <<pc, md, sev, severity_score, self_grade_score, final_score,
          tree, markdown_ok, files, idx, out, scanner,
          DATA, q_value, minScore, chips, sortBy, arr, list, selected, date_parses>>

pipelineVars == <<md, sev, severity_score, self_grade_score, final_score>>
loaderVars == <<tree, markdown_ok, files, idx, out>>
pageVars == <<DATA, q_value, minScore, chips, sortBy, arr, list, selected, date_parses>>

(***************************************************************************)
(* Bounds of the model.                                                    *)
(***************************************************************************)
MaxCount == 6        \* occurrences of "critical", "high", "medium" in a scored text
MaxLow == 10         \* occurrences of "low" in a scored text
MaxChunks == 3       \* chunks concatenated into a generated text

(***************************************************************************)
(* Characters.                                                             *)
(***************************************************************************)
UpperSeq == <<"A","B","C","D","E","F","G","H","I","J","K","L","M",
              "N","O","P","Q","R","S","T","U","V","W","X","Y","Z">>
LowerSeq == <<"a","b","c","d","e","f","g","h","i","j","k","l","m",
              "n","o","p","q","r","s","t","u","v","w","x","y","z">>

Letters == 1..Len(UpperSeq)
FoldTable == [c \in {UpperSeq[k] : k \in Letters} |->
                 LowerSeq[CHOOSE k \in Letters : UpperSeq[k] = c]]
UnfoldTable == [c \in {LowerSeq[k] : k \in Letters} |->
                   UpperSeq[CHOOSE k \in Letters : LowerSeq[k] = c]]
WordChars == DOMAIN FoldTable \cup DOMAIN UnfoldTable \cup
             {"0","1","2","3","4","5","6","7","8","9","_"}

\* str.lower() on one character; also the folding of the (?i) flag
Lower(c) == IF c \in DOMAIN FoldTable THEN FoldTable[c] ELSE c

\* str.upper() on one character
Upper(c) == IF c \in DOMAIN UnfoldTable THEN UnfoldTable[c] ELSE c

\* the class \w of re
IsWord(c) == c \in WordChars

\* the class \s of re, which is also what str.strip() removes
IsSpace(c) == c \in {" ", "\t", "\n", "\r", "\f"}

(***************************************************************************)
(* Regular-expression primitives over a text t (positions 1..Len(t)).      *)
(***************************************************************************)
CharAt(t, i) == IF i \in 1..Len(t) THEN t[i] ELSE ""

IsWordAt(t, i) == i \in 1..Len(t) /\ IsWord(t[i])

\* \b at the gap between t[i-1] and t[i]
WordBoundary(t, i) == IsWordAt(t, i - 1) # IsWordAt(t, i)

\* the literal w (lower case) matches at i under (?i)
LitAt(t, i, w) ==
    /\ i >= 1
    /\ i + Len(w) - 1 <= Len(t)
    /\ \A k \in 1..Len(w) : Lower(t[i + k - 1]) = w[k]

\* position reached by a greedy \s* started at i
RECURSIVE SkipSpace(_, _)
SkipSpace(t, i) ==
    IF i \in 1..Len(t) /\ IsSpace(t[i]) THEN SkipSpace(t, i + 1) ELSE i

MinOf(S) == CHOOSE x \in S : \A y \in S : x <= y
MaxOf(S) == CHOOSE x \in S : \A y \in S : x >= y

(***************************************************************************)
(* Self-grade extractor (DashAuditFinal.py).                               *)
(***************************************************************************)
SelfWord == <<"s","e","l","f">>
GradeWord == <<"g","r","a","d","e">>

\* position after (self[-\s]?grade|grade) matched at i, 0 when it does not match
GradeKeywordEnd(t, i) ==
    IF LitAt(t, i, SelfWord)
    THEN LET j == i + Len(SelfWord) IN
         IF (CharAt(t, j) = "-" \/ IsSpace(CharAt(t, j))) /\ LitAt(t, j + 1, GradeWord)
         THEN j + 1 + Len(GradeWord)
         ELSE IF LitAt(t, j, GradeWord) THEN j + Len(GradeWord) ELSE 0
    ELSE IF LitAt(t, i, GradeWord) THEN i + Len(GradeWord) ELSE 0

\* the separator class [:\-]
IsGradeSeparator(c) == c \in {":", "-"}

\* the letter class [ABCDEF] under (?i)
IsGradeLetter(c) == Lower(c) \in {"a","b","c","d","e","f"}

\* GradeMatchAt with the separator made optional, [:\-]?
GradeMatchAt_optional_separator(t, i) ==
    LET e == GradeKeywordEnd(t, i)
        s == SkipSpace(t, e)
        l == IF IsGradeSeparator(CharAt(t, s)) THEN SkipSpace(t, s + 1) ELSE s
    IN  IF /\ e # 0
           /\ WordBoundary(t, i)
           /\ IsGradeLetter(CharAt(t, l))
           /\ WordBoundary(t, l + 1)
        THEN l ELSE 0

\* \b(self[-\s]?grade|grade)\s*[:\-]\s*([ABCDEF])\b anchored at i:
\* the position of group 2, 0 when there is no match at i
GradeMatchAt(t, i) ==
    LET e == GradeKeywordEnd(t, i)
        s == SkipSpace(t, e)
        l == SkipSpace(t, s + 1)
    IN  IF /\ e # 0
           /\ WordBoundary(t, i)
           /\ IsGradeSeparator(CharAt(t, s))
           /\ IsGradeLetter(CharAt(t, l))
           /\ WordBoundary(t, l + 1)
        THEN l ELSE 0

\* GradeSearch taking the match with the rightmost start
GradeSearch_last(t) ==
    LET S == {i \in 1..Len(t) : GradeMatchAt(t, i) # 0}
    IN  IF S = {} THEN 0 ELSE GradeMatchAt(t, MaxOf(S))

\* re.search: the match with the leftmost start; 0 when there is none
GradeSearch(t) ==
    LET S == {i \in 1..Len(t) : GradeMatchAt(t, i) # 0}
    IN  IF S = {} THEN 0 ELSE GradeMatchAt(t, MinOf(S))

\* mapping with E given its own score, 50.0
mapping_E50 == ("A" :> 9500) @@ ("B" :> 8500) @@ ("C" :> 7500) @@
               ("D" :> 6000) @@ ("E" :> 5000) @@ ("F" :> 4000)

mapping == ("A" :> 9500) @@ ("B" :> 8500) @@ ("C" :> 7500) @@
           ("D" :> 6000) @@ ("E" :> 4000) @@ ("F" :> 4000)

\* dict.get(key, default)
Get(d, key, default) == IF key \in DOMAIN d THEN d[key] ELSE default

extract_self_grade_score(md_text) ==
    LET m == GradeSearch(md_text) IN
    IF m = 0 THEN -100
    ELSE LET letter == Upper(md_text[m]) IN Get(mapping, letter, -100)

(***************************************************************************)
(* Severity counter.                                                       *)
(***************************************************************************)
Levels == {"critical", "high", "medium", "low"}

LevelWord(level) ==
    CASE level = "critical" -> <<"c","r","i","t","i","c","a","l">>
      [] level = "high"     -> <<"h","i","g","h">>
      [] level = "medium"   -> <<"m","e","d","i","u","m">>
      [] level = "low"      -> <<"l","o","w">>

\* len(re.findall(r'(?i)\b{level}\b', md_text))
CountWord(t, w) ==
    Cardinality({i \in 1..Len(t) :
        /\ LitAt(t, i, w)
        /\ WordBoundary(t, i)
        /\ WordBoundary(t, i + Len(w))})

count_severities(md_text) ==
    [level \in Levels |-> CountWord(md_text, LevelWord(level))]

(***************************************************************************)
(* Severity penalty rule and score combiner.                               *)
(***************************************************************************)
Min(a, b) == IF a <= b THEN a ELSE b
Max(a, b) == IF a >= b THEN a ELSE b

\* severity_penalty_score without the cap on the "high" deduction
severity_penalty_score_uncapped_high(s) ==
    LET b0 == 10000
        b1 == b0 - Min(Get(s, "critical", 0) * 2500, 6000)
        b2 == b1 - Get(s, "high", 0) * 1500
        b3 == b2 - Min(Get(s, "medium", 0) * 700, 3500)
        b4 == b3 - Min(Get(s, "low", 0) * 200, 1000)
    IN  Max(100, Min(10000, b4))

\* severity_penalty_score with the final clamp only from above
severity_penalty_score_no_floor(s) ==
    LET b0 == 10000
        b1 == b0 - Min(Get(s, "critical", 0) * 2500, 6000)
        b2 == b1 - Min(Get(s, "high", 0) * 1500, 4500)
        b3 == b2 - Min(Get(s, "medium", 0) * 700, 3500)
        b4 == b3 - Min(Get(s, "low", 0) * 200, 1000)
    IN  Min(10000, b4)

severity_penalty_score(s) ==
    LET b0 == 10000
        b1 == b0 - Min(Get(s, "critical", 0) * 2500, 6000)
        b2 == b1 - Min(Get(s, "high", 0) * 1500, 4500)
        b3 == b2 - Min(Get(s, "medium", 0) * 700, 3500)
        b4 == b3 - Min(Get(s, "low", 0) * 200, 1000)
    IN  Max(100, Min(10000, b4))

\* n / d rounded to the nearest integer, ties to even
RoundHalfEven(n, d) ==
    LET q == n \div d
        r == n % d
    IN  IF 2 * r < d THEN q
        ELSE IF 2 * r > d THEN q + 1
        ELSE IF q % 2 = 0 THEN q ELSE q + 1

\* round(x, 1): x in thousandths, the result in hundredths
Round1(x) == RoundHalfEven(x, 100) * 10

\* combine_scores with the two weights exchanged
combine_scores_swapped_weights(self_grade, sev_score) ==
    IF self_grade < 0 THEN Round1(sev_score * 10)
    ELSE Round1(4 * sev_score + 6 * self_grade)

\* combine_scores with both weights 0.5
combine_scores_equal_weights(self_grade, sev_score) ==
    IF self_grade < 0 THEN Round1(sev_score * 10)
    ELSE Round1(5 * sev_score + 5 * self_grade)

combine_scores(self_grade, sev_score) ==
    IF self_grade < 0 THEN Round1(sev_score * 10)
    ELSE Round1(6 * sev_score + 4 * self_grade)

\* JavaScript Math.round(x) for x >= 0 in hundredths: floor(x + 0.5)
Math_round(x) == (x + 50) \div 100

\* Python int(round(x)) for x >= 0 in hundredths: ties go to the even integer
int_round(x) == RoundHalfEven(x, 100)

(***************************************************************************)
(* Generated texts: concatenations of at most n chunks of a vocabulary.    *)
(***************************************************************************)
RECURSIVE TextsUpTo(_, _)
TextsUpTo(vocab, n) ==
    IF n = 0 THEN {<<>>}
    ELSE LET prev == TextsUpTo(vocab, n - 1)
         IN  prev \cup {t \o c : t \in prev, c \in vocab}

RECURSIVE Repeat(_, _)
Repeat(w, n) == IF n = 0 THEN <<>> ELSE w \o Repeat(w, n - 1)

\* a report whose body names each severity level a given number of times
SeverityText(c, h, m, l) ==
    Repeat(LevelWord("critical") \o <<" ">>, c) \o
    Repeat(LevelWord("high") \o <<" ">>, h) \o
    Repeat(LevelWord("medium") \o <<" ">>, m) \o
    Repeat(LevelWord("low") \o <<" ">>, l)

GradeLines ==
    {<<>>} \cup {<<"G","r","a","d","e",":"," ">> \o <<x>> : x \in {"A","B","C","D","E","F"}}

ScoreTexts ==
    {SeverityText(c, h, m, l) \o g :
        c \in 0..MaxCount, h \in 0..MaxCount, m \in 0..MaxCount,
        l \in 0..MaxLow, g \in GradeLines}

GradeVocab ==
    { <<"G","r","a","d","e">>, <<"s","e","l","f">>, <<":">>, <<"-">>, <<" ">>,
      <<"A">>, <<"B">>, <<"C">>, <<"D">>, <<"E">>, <<"F">>, <<"a">>, <<"e">>, <<"G">> }

GradeTexts == TextsUpTo(GradeVocab, MaxChunks)

(***************************************************************************)
(* The scoring pipeline of load_reports (lines 84-87) on one text.         *)
(***************************************************************************)
NoSev == [level \in Levels |-> 0]

LoaderIdle ==
    /\ tree = <<>>
    /\ markdown_ok = TRUE
    /\ files = <<>>
    /\ idx = 0
    /\ out = <<>>

\* no page is open and compute_security_score has not been called
PageIdle ==
    /\ scanner = <<>>
    /\ DATA = <<>>
    /\ q_value = <<>>
    /\ minScore = 1
    /\ chips = {}
    /\ sortBy = "score"
    /\ arr = <<>>
    /\ list = <<>>
    /\ selected = 0
    /\ date_parses = TRUE

PipelineInit(texts) ==
    /\ pc = "count"
    /\ md \in texts
    /\ sev = NoSev
    /\ severity_score = 0
    /\ self_grade_score = 0
    /\ final_score = 0
    /\ LoaderIdle
    /\ PageIdle

CountSeverities ==
    /\ pc = "count"
    /\ sev' = count_severities(md)
    /\ pc' = "penalty"
    /\ UNCHANGED <<md, severity_score, self_grade_score, final_score, loaderVars, scanner, pageVars>>

Penalty ==
    /\ pc = "penalty"
    /\ severity_score' = severity_penalty_score(sev)
    /\ pc' = "grade"
    /\ UNCHANGED <<md, sev, self_grade_score, final_score, loaderVars, scanner, pageVars>>

ExtractGrade ==
    /\ pc = "grade"
    /\ self_grade_score' = extract_self_grade_score(md)
    /\ pc' = "combine"
    /\ UNCHANGED <<md, sev, severity_score, final_score, loaderVars, scanner, pageVars>>

Combine ==
    /\ pc = "combine"
    /\ final_score' = combine_scores(self_grade_score, severity_score)
    /\ pc' = "scored"
    /\ UNCHANGED <<md, sev, severity_score, self_grade_score, loaderVars, scanner, pageVars>>

PipelineNext == CountSeverities \/ Penalty \/ ExtractGrade \/ Combine

InitScore == PipelineInit(ScoreTexts)
SpecScore == InitScore /\ [][PipelineNext]_vars

InitGrade == PipelineInit(GradeTexts)
SpecGrade == InitGrade /\ [][PipelineNext]_vars

(***************************************************************************)
(* The scorer of the single-report page (ScannerToHTML.py).                *)
(***************************************************************************)
\* grade\s*[:\-]\s*([ABCDEF]) under (?i), anchored at i: the position of
\* group 1, 0 when there is no match at i
ScannerGradeMatchAt(t, i) ==
    LET s == SkipSpace(t, i + Len(GradeWord))
        l == SkipSpace(t, s + 1)
    IN  IF /\ LitAt(t, i, GradeWord)
           /\ IsGradeSeparator(CharAt(t, s))
           /\ IsGradeLetter(CharAt(t, l))
        THEN l ELSE 0

\* re.search: the match with the leftmost start; 0 when there is none
ScannerGradeSearch(t) ==
    LET S == {i \in 1..Len(t) : ScannerGradeMatchAt(t, i) # 0}
    IN  IF S = {} THEN 0 ELSE ScannerGradeMatchAt(t, MinOf(S))

_extract_self_grade(md_text) ==
    LET m == ScannerGradeSearch(md_text) IN
    IF m = 0 THEN -100
    ELSE LET letter == Upper(md_text[m]) IN Get(mapping, letter, -100)

_count_severities(md_text) ==
    [level \in Levels |-> CountWord(md_text, LevelWord(level))]

_severity_penalty_score(s) ==
    LET b0 == 10000
        b1 == b0 - Min(Get(s, "critical", 0) * 2500, 6000)
        b2 == b1 - Min(Get(s, "high", 0) * 1500, 4500)
        b3 == b2 - Min(Get(s, "medium", 0) * 700, 3500)
        b4 == b3 - Min(Get(s, "low", 0) * 200, 1000)
    IN  Max(100, Min(10000, b4))

_combine_scores(self_grade, sev_score) ==
    IF self_grade < 0 THEN sev_score
    ELSE Round1(6 * sev_score + 4 * self_grade)

compute_security_score(md_text) ==
    LET s == _count_severities(md_text)
        sev_score == _severity_penalty_score(s)
        letter_score == _extract_self_grade(md_text)
        final == _combine_scores(letter_score, sev_score)
    IN  [final_score |-> final, severity_counts |-> s,
         self_grade_score |-> letter_score, severity_score |-> sev_score]

\* the same text handed to the single-report scorer
ComputeSecurityScore ==
    /\ pc = "scored"
    /\ scanner' = compute_security_score(md)
    /\ pc' = "compared"
    /\ UNCHANGED <<pipelineVars, loaderVars, pageVars>>

\* texts made of grade mentions, each ending in white space
MentionVocab ==
    { <<"G","r","a","d","e",":","A"," ">>,
      <<"g","r","a","d","e","-","b","\n">>,
      <<"s","e","l","f","-","g","r","a","d","e",":"," ","C"," ">>,
      <<"G","r","a","d","e"," ",":"," ","F","\n">>,
      <<"G","r","a","d","e"," ","D"," ">>,
      <<"u","p","g","r","a","d","e",":","E"," ">>,
      <<"G","r","a","d","e",":","B","x"," ">>,
      <<"G","r","a","d","e",":","G"," ">> }

MentionTexts == TextsUpTo(MentionVocab, MaxChunks)

MentionNext == PipelineNext \/ ComputeSecurityScore

InitMentions == PipelineInit(MentionTexts)
SpecMentions == InitMentions /\ [][MentionNext]_vars

(***************************************************************************)
(* Markdown renderer with its escaped-plaintext fallback.                  *)
(***************************************************************************)
\* str.replace(c, r) for a one-character c
RECURSIVE Replace(_, _, _)
Replace(t, c, r) ==
    IF t = <<>> THEN <<>>
    ELSE (IF Head(t) = c THEN r ELSE <<Head(t)>>) \o Replace(Tail(t), c, r)

AmpEntity == <<"&","a","m","p",";">>
LtEntity == <<"&","l","t",";">>
GtEntity == <<"&","g","t",";">>
PreOpen == <<"<","p","r","e",">">>
PreClose == <<"<","/","p","r","e",">">>

\* what markdown.markdown returns: the library's rendering, opaque here
Markdown(md_text) == <<"markdown.markdown(">> \o md_text \o <<")">>

\* render_markdown whose fallback escapes '&' last
render_markdown_amp_last(md_text, lib_ok) ==
    IF lib_ok THEN Markdown(md_text)
    ELSE LET safe == Replace(Replace(Replace(md_text, "<", LtEntity),
                                     ">", GtEntity), "&", AmpEntity)
         IN  PreOpen \o safe \o PreClose

\* lib_ok: "import markdown" and markdown.markdown(...) succeed
render_markdown(md_text, lib_ok) ==
    IF lib_ok THEN Markdown(md_text)
    ELSE LET safe == Replace(Replace(Replace(md_text, "&", AmpEntity),
                                     "<", LtEntity), ">", GtEntity)
         IN  PreOpen \o safe \o PreClose

(***************************************************************************)
(* Title derivation: re.search(r'^\s*#\s+(.+)$', md, re.MULTILINE).        *)
(***************************************************************************)
\* ^ under re.MULTILINE
IsLineStart(t, i) == i = 1 \/ (i \in 2..Len(t) /\ t[i - 1] = "\n")

\* last position of the greedy (.+) started at g: '.' stops at a line feed
RECURSIVE LineEnd(_, _)
LineEnd(t, g) ==
    IF g + 1 <= Len(t) /\ t[g + 1] # "\n" THEN LineEnd(t, g + 1) ELSE g

\* start of group 1 of the match anchored at i, 0 when there is no match at i.
\* \s+ is greedy: it takes the whole run of white space when a character
\* follows the run, and otherwise gives back as little as lets (.+) match.
TitleGroupStart(t, i) ==
    LET h == SkipSpace(t, i)
        w == SkipSpace(t, h + 1)
    IN  IF CharAt(t, h) # "#" \/ w = h + 1 THEN 0
        ELSE IF w <= Len(t) THEN w
        ELSE LET C == {g \in (h + 2)..Len(t) : t[g] # "\n"}
             IN  IF C = {} THEN 0 ELSE MaxOf(C)

\* re.search: group 1 start of the leftmost match, 0 when there is none
TitleSearch(t) ==
    LET S == {i \in 1..Len(t) : IsLineStart(t, i) /\ TitleGroupStart(t, i) # 0}
    IN  IF S = {} THEN 0 ELSE TitleGroupStart(t, MinOf(S))

\* str.strip()
RECURSIVE LStrip(_)
LStrip(t) == IF t # <<>> /\ IsSpace(Head(t)) THEN LStrip(Tail(t)) ELSE t
RECURSIVE RStrip(_)
RStrip(t) ==
    IF t # <<>> /\ IsSpace(t[Len(t)]) THEN RStrip(SubSeq(t, 1, Len(t) - 1)) ELSE t
Strip(t) == RStrip(LStrip(t))

(***************************************************************************)
(* Paths: a path is the sequence of its parts, a part a sequence of        *)
(* characters.                                                             *)
(***************************************************************************)
\* Path.name
Name(p) == p[Len(p)]

\* Path.stem: the name up to its last dot, unless that dot leads or ends it
Stem(p) ==
    LET name == Name(p)
        dots == {k \in 1..Len(name) : name[k] = "."}
    IN  IF dots # {} /\ 1 < MaxOf(dots) /\ MaxOf(dots) < Len(name)
        THEN SubSeq(name, 1, MaxOf(dots) - 1)
        ELSE name

\* code points of the characters of the modelled file names
CodePoint(c) ==
    CASE c = "." -> 46 [] c = "a" -> 97 [] c = "b" -> 98
      [] c = "c" -> 99 [] c = "d" -> 100 [] c = "m" -> 109

\* str.__lt__ and list.__lt__: lexicographic order
RECURSIVE StrLess(_, _)
StrLess(a, b) ==
    IF b = <<>> THEN FALSE
    ELSE IF a = <<>> THEN TRUE
    ELSE IF Head(a) # Head(b) THEN CodePoint(Head(a)) < CodePoint(Head(b))
    ELSE StrLess(Tail(a), Tail(b))

\* PurePath.__lt__: the parts compared as lists of strings
RECURSIVE PathLess(_, _)
PathLess(p, q) ==
    IF q = <<>> THEN FALSE
    ELSE IF p = <<>> THEN TRUE
    ELSE IF Head(p) # Head(q) THEN StrLess(Head(p), Head(q))
    ELSE PathLess(Tail(p), Tail(q))

RECURSIVE Insert(_, _)
Insert(p, s) ==
    IF s = <<>> THEN <<p>>
    ELSE IF PathLess(p, Head(s)) THEN <<p>> \o s
    ELSE <<Head(s)>> \o Insert(p, Tail(s))

\* the loop taking the files in discovery order
SortedPaths_unsorted(fs) == fs

\* sorted(files)
RECURSIVE SortedPaths(_)
SortedPaths(fs) == IF fs = <<>> THEN <<>> ELSE Insert(Head(fs), SortedPaths(Tail(fs)))

(***************************************************************************)
(* The directory tree the loader runs on.                                  *)
(***************************************************************************)
MaxMTime == 3        \* modification times, in half seconds

FileA == <<"a",".","m","d">>
FileC == <<"c",".","m","d">>
DirB == <<"b">>
PathA == <<FileA>>
PathC == <<FileC>>
PathBA == <<DirB, FileA>>
AllPaths == {PathA, PathC, PathBA}

\* kind: "absent"; "unreadable" (read_text raises: a directory named *.md, no
\* permission); "nostat" (read_text succeeds, p.stat() or datetime.fromtimestamp
\* raises: the file was removed meanwhile, or its mtime is outside year 1..9999);
\* "file" (everything succeeds)
Absent == [kind |-> "absent", text |-> <<>>, mtime |-> 0]
Unreadable == [kind |-> "unreadable", text |-> <<>>, mtime |-> 0]
NoStat == [kind |-> "nostat", text |-> <<>>, mtime |-> 0]
Files(texts) == [kind : {"file"}, text : texts, mtime : 1..MaxMTime]
Entries(texts) == {Absent, Unreadable, NoStat} \cup Files(texts)

LoadVocab ==
    { <<"#">>, <<" ">>, <<"\n">>, <<"T">>, <<"&">>, <<"<">>, <<">">>, <<"l","o","w">> }
LoadTexts == TextsUpTo(LoadVocab, MaxChunks)

BatchTexts == { <<>>, <<"#"," ","T">> }

PipelineIdle ==
    /\ md = <<>>
    /\ sev = NoSev
    /\ severity_score = 0
    /\ self_grade_score = 0
    /\ final_score = 0

LoaderInit(trees) ==
    /\ pc = "start"
    /\ tree \in trees
    /\ markdown_ok \in BOOLEAN
    /\ files = <<>>
    /\ idx = 0
    /\ out = <<>>
    /\ PipelineIdle
    /\ PageIdle

\* one report in the directory, with any generated text
SingleTrees ==
    {[p \in AllPaths |-> IF p = PathA THEN e ELSE Absent] :
        e \in Entries(LoadTexts) \ {Absent}}

\* up to three entries, two of them with the same file name
BatchTrees == [AllPaths -> Entries(BatchTexts)]

(***************************************************************************)
(* load_reports.                                                           *)
(***************************************************************************)
\* strftime("%Y-%m-%d %H:%M:%S %Z") of st_mtime: whole seconds
FormatMTime(t) == t \div 2

\* lines 83-94: the ReportItem of a source that was read
ReportItem(p, text, st_mtime, lib_ok) ==
    LET html == render_markdown(text, lib_ok)
        s == count_severities(text)
        ss == severity_penalty_score(s)
        gs == extract_self_grade_score(text)
        fs == combine_scores(gs, ss)
        m == TitleSearch(text)
        title == IF m # 0 THEN Strip(SubSeq(text, m, LineEnd(text, m))) ELSE Stem(p)
    IN  [filename |-> Name(p), title |-> title, html |-> html, text |-> text,
         severity |-> s, self_grade_score |-> gs, severity_score |-> ss,
         final_score |-> fs, mtime |-> FormatMTime(st_mtime)]

\* root.glob("*.md") / root.rglob("*.md")
Globbed(recursive) ==
    {p \in AllPaths : tree[p].kind # "absent" /\ (recursive \/ Len(p) = 1)}

Orderings(S) ==
    {f \in [1..Cardinality(S) -> S] : \A i, j \in DOMAIN f : i # j => f[i] # f[j]}

\* line 76: the paths arrive in whatever order the directory scan yields
Glob ==
    /\ pc = "start"
    /\ \E recursive \in BOOLEAN : files' \in Orderings(Globbed(recursive))
    /\ idx' = 1
    /\ pc' = "loop"
    /\ UNCHANGED <<tree, markdown_ok, out, pipelineVars, scanner, pageVars>>

Current == SortedPaths(files)[idx]

InLoop == pc = "loop" /\ idx \in 1..Len(files)

\* StepSkip leaving the loop at the first unreadable source
StepSkip_break ==
    /\ InLoop
    /\ tree[Current].kind = "unreadable"
    /\ pc' = "done"
    /\ UNCHANGED <<idx, tree, markdown_ok, files, out, pipelineVars, scanner, pageVars>>

\* lines 79-82: read_text raises, the source is skipped
StepSkip ==
    /\ InLoop
    /\ tree[Current].kind = "unreadable"
    /\ idx' = idx + 1
    /\ UNCHANGED <<pc, tree, markdown_ok, files, out, pipelineVars, scanner, pageVars>>

\* lines 83-94: the source is read and its item appended
StepAppend ==
    /\ InLoop
    /\ tree[Current].kind = "file"
    /\ out' = Append(out, ReportItem(Current, tree[Current].text,
                                     tree[Current].mtime, markdown_ok))
    /\ idx' = idx + 1
    /\ UNCHANGED <<pc, tree, markdown_ok, files, pipelineVars, scanner, pageVars>>

\* line 90 raises outside the try: the exception leaves load_reports
StepRaise ==
    /\ InLoop
    /\ tree[Current].kind = "nostat"
    /\ pc' = "raised"
    /\ UNCHANGED <<idx, tree, markdown_ok, files, out, pipelineVars, scanner, pageVars>>

\* line 95
Return ==
    /\ pc = "loop"
    /\ idx = Len(files) + 1
    /\ pc' = "done"
    /\ UNCHANGED <<idx, tree, markdown_ok, files, out, pipelineVars, scanner, pageVars>>

LoaderNext == Glob \/ StepSkip \/ StepAppend \/ StepRaise \/ Return

InitLoad == LoaderInit(SingleTrees)
SpecLoad == InitLoad /\ [][LoaderNext]_vars

InitBatch == LoaderInit(BatchTrees)
SpecBatch == InitBatch /\ [][LoaderNext]_vars

(***************************************************************************)
(* The dashboard page: DATA and the script of HTML_TMPL (lines 223-341).   *)
(* The items of a list are held as indexes into DATA, as the script holds  *)
(* references to the objects of DATA.                                      *)
(***************************************************************************)
\* String.prototype.toLowerCase
toLowerCase(t) == [k \in DOMAIN t |-> Lower(t[k])]

\* String.prototype.includes
includes(t, sub) ==
    \E i \in 0..(Len(t) - Len(sub)) : SubSeq(t, i + 1, i + Len(sub)) = sub

\* SearchKeeps looking into the raw text too
SearchKeeps_raw_text(it, q) ==
    \/ includes(toLowerCase(it.title), q)
    \/ includes(toLowerCase(it.filename), q)
    \/ includes(toLowerCase(it.text), q)

\* line 242: the search predicate, q already in lower case
SearchKeeps(it, q) ==
    includes(toLowerCase(it.title), q) \/ includes(toLowerCase(it.filename), q)

\* ScoreKeeps with a strict comparison
ScoreKeeps_exclusive(it, m) == Math_round(it.final_score) > m

\* line 243: the min-score predicate
ScoreKeeps(it, m) == Math_round(it.final_score) >= m

\* SeverityKeeps with chips.every
SeverityKeeps_every(it, cs) == \A c \in cs : Get(it.severity, c, 0) > 0

\* line 246: chips.some(c => (it.severity[c]||0) > 0)
SeverityKeeps(it, cs) == \E c \in cs : Get(it.severity, c, 0) > 0

\* a.title.localeCompare(b.title) for titles made of letters: the letters
\* are compared alphabetically without regard to case, a proper prefix
\* comes first, and titles equal up to case differ by the first position
\* where one has the lower-case letter, which comes first
LetterRank(c) == CHOOSE k \in 1..Len(LowerSeq) : LowerSeq[k] = Lower(c)

RECURSIVE PrimaryCompare(_, _)
PrimaryCompare(x, y) ==
    IF x = <<>> /\ y = <<>> THEN 0
    ELSE IF x = <<>> THEN -1
    ELSE IF y = <<>> THEN 1
    ELSE IF LetterRank(Head(x)) < LetterRank(Head(y)) THEN -1
    ELSE IF LetterRank(Head(x)) > LetterRank(Head(y)) THEN 1
    ELSE PrimaryCompare(Tail(x), Tail(y))

RECURSIVE CaseCompare(_, _)
CaseCompare(x, y) ==
    IF x = <<>> \/ y = <<>> THEN 0
    ELSE IF Head(x) = Head(y) THEN CaseCompare(Tail(x), Tail(y))
    ELSE IF Head(x) = Lower(Head(x)) THEN -1 ELSE 1

localeCompare(x, y) ==
    LET p == PrimaryCompare(x, y) IN IF p # 0 THEN p ELSE CaseCompare(x, y)

\* new Date(it.mtime) of the string "%Y-%m-%d %H:%M:%S %Z": the time in
\* seconds when the engine accepts the format, and NaN (here -1) when it
\* does not recognise the time-zone name
NaN == -1
Date(mtime, parses) == IF parses THEN mtime ELSE NaN

\* lines 249-251: the comparator of the chosen sort key; a NaN result is
\* taken as 0 by Array.prototype.sort
Comparator(a, b, sortKey, parses) ==
    CASE sortKey = "score"  -> b.final_score - a.final_score
      [] sortKey = "newest" ->
            IF Date(b.mtime, parses) = NaN \/ Date(a.mtime, parses) = NaN THEN 0
            ELSE Date(b.mtime, parses) - Date(a.mtime, parses)
      [] sortKey = "name"   -> localeCompare(a.title, b.title)
      [] OTHER -> 0

\* Array.prototype.sort, which is stable: x had its place before every
\* element of the sorted rest
RECURSIVE InsertItem(_, _, _, _, _)
InsertItem(x, s, D, sortKey, parses) ==
    IF s = <<>> THEN <<x>>
    ELSE IF Comparator(D[Head(s)], D[x], sortKey, parses) < 0
         THEN <<Head(s)>> \o InsertItem(x, Tail(s), D, sortKey, parses)
         ELSE <<x>> \o s

RECURSIVE Sort(_, _, _, _)
Sort(s, D, sortKey, parses) ==
    IF s = <<>> THEN <<>>
    ELSE InsertItem(Head(s), Sort(Tail(s), D, sortKey, parses), D, sortKey, parses)

Indexes(D) == [k \in 1..Len(D) |-> k]

\* Filtered with the min-score filter run on DATA instead of on the result
\* of the search filter
Filtered_not_chained(D, q, m, cs) ==
    LET a2 == SelectSeq(Indexes(D), LAMBDA i : ScoreKeeps(D[i], m))
    IN  IF cs # {} THEN SelectSeq(a2, LAMBDA i : SeverityKeeps(D[i], cs)) ELSE a2

\* lines 242-247: the three filters one after another
Filtered(D, q, m, cs) ==
    LET a1 == SelectSeq(Indexes(D), LAMBDA i : SearchKeeps(D[i], q))
        a2 == SelectSeq(a1, LAMBDA i : ScoreKeeps(D[i], m))
    IN  IF cs # {} THEN SelectSeq(a2, LAMBDA i : SeverityKeeps(D[i], cs)) ELSE a2

\* renderList with the sort run on DATA itself
renderList_sorts_data(D, value, m, cs, sortKey, parses) ==
    LET a == Filtered(D, toLowerCase(value), m, cs)
        order == Sort(Indexes(D), D, sortKey, parses)
    IN  [data |-> [k \in 1..Len(D) |-> D[order[k]]],
         arr |-> a,
         list |-> Sort(a, D, sortKey, parses)]

\* renderList (lines 235-269): what it leaves in DATA, the array after the
\* filters, and the items it renders, in order
renderList(D, value, m, cs, sortKey, parses) ==
    LET a == Filtered(D, toLowerCase(value), m, cs)
    IN  [data |-> D, arr |-> a, list |-> Sort(a, D, sortKey, parses)]

\* the handler's call of renderList with the controls as they are after
\* the event
Rendered(value, m, cs, sortKey) ==
    LET r == renderList(DATA, value, m, cs, sortKey, date_parses)
    IN  /\ DATA' = r.data
        /\ arr' = r.arr
        /\ list' = r.list

\* the load of a whole tree (lines 75-95), every file readable
Loaded(tr) ==
    LET S == {p \in AllPaths : tr[p].kind = "file"}
        ps == SortedPaths(CHOOSE f \in Orderings(S) : TRUE)
    IN  [k \in 1..Len(ps) |-> ReportItem(ps[k], tr[ps[k]].text, tr[ps[k]].mtime, TRUE)]

\* three reports with final scores 98.0, 40.0 and 44.8 in path order, shown
\* as 98, 40 and 45
TextBeta == <<"#"," ","B","e","t","a","\n","G","r","a","d","e",":"," ","A">>
TextCritical == Repeat(<<"c","r","i","t","i","c","a","l"," ">>, 3)
TextAlpha ==
    <<"#"," ","a","l","p","h","a","\n","G","r","a","d","e",":"," ","F","\n">>
        \o SeverityText(0, 3, 1, 0)

PageTrees ==
    {[p \in AllPaths |->
        [kind |-> "file",
         text |-> IF p = PathA THEN TextBeta
                  ELSE IF p = PathBA THEN TextCritical ELSE TextAlpha,
         mtime |-> t[p]]] :
     t \in {f \in [AllPaths -> 1..MaxMTime] :
               \A x, y \in AllPaths : x # y => f[x] # f[y]}}

\* what the user types into the search box
TypedQueries ==
    { <<>>, <<"B","E","T","A">>, <<"A",".">>,
      <<"c","r","i","t","i","c","a","l">> }

\* positions the min-score slider (1..100) is moved to
SliderStops == {1, 45, 46}

SortKeys == {"score", "newest", "name"}

\* the page once its script has run: bindUI(); renderList();
InitPage ==
    /\ pc = "page"
    /\ PipelineIdle
    /\ LoaderIdle
    /\ scanner = <<>>
    /\ DATA \in {Loaded(tr) : tr \in PageTrees}
    /\ date_parses \in BOOLEAN
    /\ q_value = <<>>
    /\ minScore = 1
    /\ chips = {}
    /\ sortBy = "score"
    /\ arr = renderList(DATA, q_value, minScore, chips, sortBy, date_parses).arr
    /\ list = renderList(DATA, q_value, minScore, chips, sortBy, date_parses).list
    /\ selected = 0

\* line 325: input event of #q
InputQuery ==
    /\ pc = "page"
    /\ \E v \in TypedQueries :
        /\ v # q_value
        /\ q_value' = v
        /\ Rendered(v, minScore, chips, sortBy)
    /\ UNCHANGED <<pc, pipelineVars, loaderVars, scanner, minScore, chips,
                   sortBy, selected, date_parses>>

\* line 326: input event of #minScore
InputMinScore ==
    /\ pc = "page"
    /\ \E v \in SliderStops :
        /\ v # minScore
        /\ minScore' = v
        /\ Rendered(q_value, v, chips, sortBy)
    /\ UNCHANGED <<pc, pipelineVars, loaderVars, scanner, q_value, chips,
                   sortBy, selected, date_parses>>

\* line 327: click on a chip
ClickChip ==
    /\ pc = "page"
    /\ \E c \in Levels :
        LET cs == IF c \in chips THEN chips \ {c} ELSE chips \cup {c}
        IN  /\ chips' = cs
            /\ Rendered(q_value, minScore, cs, sortBy)
    /\ UNCHANGED <<pc, pipelineVars, loaderVars, scanner, q_value, minScore,
                   sortBy, selected, date_parses>>

\* line 328: change event of #sortSel
ChangeSort ==
    /\ pc = "page"
    /\ \E k \in SortKeys :
        /\ k # sortBy
        /\ sortBy' = k
        /\ Rendered(q_value, minScore, chips, k)
    /\ UNCHANGED <<pc, pipelineVars, loaderVars, scanner, q_value, minScore,
                   chips, selected, date_parses>>

\* line 266: click on an item of the list, select(idx) (lines 288-322)
Select ==
    /\ pc = "page"
    /\ \E k \in DOMAIN list : selected' = list[k]
    /\ UNCHANGED <<pc, pipelineVars, loaderVars, scanner, DATA, q_value,
                   minScore, chips, sortBy, arr, list, date_parses>>

PageNext == InputQuery \/ InputMinScore \/ ClickChip \/ ChangeSort \/ Select

SpecPage == InitPage /\ [][PageNext]_vars

(***************************************************************************)
(* Claims about the scoring functions.                                     *)
(***************************************************************************)
Clamp(x, lo, hi) == IF x < lo THEN lo ELSE IF x > hi THEN hi ELSE x

Counts(c, h, m, l) ==
    [level \in Levels |->
        CASE level = "critical" -> c [] level = "high" -> h
          [] level = "medium" -> m [] level = "low" -> l]

PenaltyDone == pc \in {"grade", "combine", "scored"}
GradeDone == pc \in {"combine", "scored"}

\* C1: once the penalty score of the counts (c, h, m, l) is computed it is
\* clamp(100 - min(25c,60) - min(15h,45) - min(7m,35) - min(2l,10), 1, 100);
\* 3 critical alone give 40 and 5 high with 10 low give 45.
C1_PenaltyFormula ==
    PenaltyDone =>
        /\ severity_score =
             Clamp(10000 - Min(2500 * sev["critical"], 6000)
                         - Min(1500 * sev["high"], 4500)
                         - Min(700 * sev["medium"], 3500)
                         - Min(200 * sev["low"], 1000), 100, 10000)
        /\ (sev = Counts(3, 0, 0, 0) => severity_score = 4000)
        /\ (sev = Counts(0, 5, 0, 10) => severity_score = 4500)

C1_Witness ==
    /\ PenaltyDone
    /\ sev = Counts(0, 5, 0, 10)
    /\ severity_score = 4500

MappedScores == {9500, 8500, 7500, 6000, 4000}

\* C2: the combined score equals the severity score when the self-grade is the
\* sentinel, and otherwise is 0.6*s + 0.4*g rounded to one decimal place (a
\* multiple of 0.1 within 0.05 of it); s = 100 with g = 95 gives 98.0.
C2_CombineFormula ==
    pc = "scored" =>
        /\ (self_grade_score = -100 => final_score = severity_score)
        /\ (self_grade_score \in MappedScores =>
              LET x == 6 * severity_score + 4 * self_grade_score
                  d == 10 * final_score - x
              IN  /\ final_score % 10 = 0
                  /\ -50 <= d /\ d <= 50)
        /\ (severity_score = 10000 /\ self_grade_score = 9500 => final_score = 9800)

C2_Witness ==
    /\ pc = "scored"
    /\ severity_score = 10000
    /\ self_grade_score = 9500
    /\ final_score = 9800

\* C3: the final score of a scored text lies in [1, 100] whatever the severity
\* counts and whether or not a self-grade is present.
C3_FinalInRange == pc = "scored" => (100 <= final_score /\ final_score <= 10000)

C3_Witness ==
    /\ pc = "scored"
    /\ sev = Counts(MaxCount, MaxCount, MaxCount, MaxLow)
    /\ self_grade_score = -100
    /\ final_score = 100

(***************************************************************************)
(* Claims about the self-grade extractor.                                  *)
(***************************************************************************)
GradeChunk == <<"G","r","a","d","e">>

\* the score the specification's table gives a letter, in either case
TableScore(x) ==
    CASE x \in {"A", "a"} -> 9500
      [] x \in {"B", "b"} -> 8500
      [] x \in {"C", "c"} -> 7500
      [] x \in {"D", "d"} -> 6000
      [] x \in {"E", "e"} -> 4000
      [] x \in {"F", "f"} -> 4000
      [] OTHER -> -100

LetterChunks == {"A", "B", "C", "D", "E", "F", "a", "e", "G"}

\* the match re.search found took the default of mapping.get
GradeFallbackTaken(t) ==
    GradeSearch(t) # 0 /\ Upper(t[GradeSearch(t)]) \notin DOMAIN mapping

\* C4: "Grade:x" and "Grade-x" score x by the table A=95, B=85, C=75, D=60,
\* E=40, F=40 in either case, every result is one of those scores or -1, and
\* the default of mapping.get is never taken after a match.
C4_GradeMapping ==
    GradeDone =>
        /\ self_grade_score \in MappedScores \cup {-100}
        /\ \A x \in LetterChunks, p \in {":", "-"} :
              md = GradeChunk \o <<p, x>> => self_grade_score = TableScore(x)
        /\ ~GradeFallbackTaken(md)

C4_Witness ==
    /\ GradeDone
    /\ md = GradeChunk \o <<":", "e">>
    /\ self_grade_score = 4000

\* C5 as claimed: "Grade x" with only white space between the word and the
\* letter scores x by the table.
C5_SeparatorOptional ==
    GradeDone =>
        \A x \in {"A", "B", "C", "D", "E", "F"} :
            md = GradeChunk \o <<" ", x>> => self_grade_score = TableScore(x)

HasSeparator(t) == \E i \in 1..Len(t) : t[i] \in {":", "-"}

\* C5 as amended: the separator is required; a text with no ':' and no '-'
\* has no self-grade, "Grade A" included.
C5_SeparatorRequired ==
    GradeDone => (~HasSeparator(md) => self_grade_score = -100)

C5_Witness ==
    /\ GradeDone
    /\ md = GradeChunk \o <<" ", "A">>
    /\ self_grade_score = -100

(***************************************************************************)
(* Claims about the loader.                                                *)
(***************************************************************************)
Range(f) == {f[i] : i \in DOMAIN f}
Terminated == pc \in {"done", "raised"}

\* the sources found by glob that can be read and stat'ed
Readable == {p \in Range(files) : tree[p].kind = "file"}

\* out holds a record of source p
HasRecord(p) ==
    \E k \in 1..Len(out) :
        /\ out[k].filename = Name(p)
        /\ out[k].text = tree[p].text
        /\ out[k].mtime = FormatMTime(tree[p].mtime)

\* C6 as claimed: for any text of a readable report the loader ends without
\* raising, with one record whose title is non-empty and whose severity
\* counts have the four keys with non-negative values.
C6_LoadTotal ==
    (Terminated /\ tree[PathA].kind = "file") =>
        /\ pc = "done"
        /\ Len(out) = 1
        /\ out[1].title # <<>>
        /\ DOMAIN out[1].severity = Levels
        /\ \A level \in Levels : out[1].severity[level] >= 0

\* C7: when load_reports returns, every source that could be read has a
\* record and the unreadable ones have none.
C7_UnreadableSkipped ==
    pc = "done" =>
        /\ \A p \in Readable : HasRecord(p)
        /\ Len(out) = Cardinality(Readable)

C7_Witness ==
    /\ pc = "done"
    /\ tree[PathA].kind = "unreadable"
    /\ tree[PathC].kind = "file"
    /\ PathA \in Range(files)
    /\ Len(out) >= 1

\* C8 as claimed: whichever step fails for one source, load_reports still
\* returns the records of all the other sources.
C8_NoStepFatal ==
    Terminated => \A p \in Readable : (pc = "done" /\ HasRecord(p))

\* '&', '<', '>' escaped one character at a time
RECURSIVE EscapedText(_)
EscapedText(t) ==
    IF t = <<>> THEN <<>>
    ELSE (CASE Head(t) = "&" -> <<"&","a","m","p",";">>
            [] Head(t) = "<" -> <<"&","l","t",";">>
            [] Head(t) = ">" -> <<"&","g","t",";">>
            [] OTHER -> <<Head(t)>>) \o EscapedText(Tail(t))

OtherFields ==
    {"filename", "title", "text", "severity", "self_grade_score",
     "severity_score", "final_score", "mtime"}

\* C9: with the renderer unavailable or raising, the record of a readable
\* source is still produced, its html is <pre> around the escaped text, and
\* its other fields are those a working renderer would leave.
C9_RenderFallback ==
    (pc = "done" /\ ~markdown_ok /\ tree[PathA].kind = "file") =>
        /\ Len(out) = 1
        /\ out[1].html = <<"<","p","r","e",">">> \o EscapedText(tree[PathA].text)
                             \o <<"<","/","p","r","e",">">>
        /\ \A f \in OtherFields :
              out[1][f] = ReportItem(PathA, tree[PathA].text, tree[PathA].mtime, TRUE)[f]

C9_Witness ==
    /\ pc = "done"
    /\ ~markdown_ok
    /\ Len(out) = 1
    /\ out[1].text = <<"<", "&", ">">>
    /\ out[1].html = <<"<","p","r","e",">", "&","l","t",";", "&","a","m","p",";",
                       "&","g","t",";", "<","/","p","r","e",">">>

\* the readable source with exactly k - 1 readable sources before it
NthReadable(k) ==
    CHOOSE p \in Readable : Cardinality({q \in Readable : PathLess(q, p)}) = k - 1

\* C10: the returned list holds one record per readable source, in the order
\* of the paths, whatever order glob discovered them in.
C10_StableOrder ==
    pc = "done" =>
        /\ Len(out) = Cardinality(Readable)
        /\ \A k \in 1..Len(out) :
              /\ out[k].filename = Name(NthReadable(k))
              /\ out[k].text = tree[NthReadable(k)].text
              /\ out[k].mtime = FormatMTime(tree[NthReadable(k)].mtime)

C10_Witness ==
    /\ pc = "done"
    /\ files = <<PathC, PathBA, PathA>>
    /\ Len(out) = 3
    /\ out[1].filename = FileA
    /\ out[2].filename = FileA
    /\ out[3].filename = FileC

(***************************************************************************)
(* Claims about the title of a record.                                     *)
(***************************************************************************)
\* str.split("\n")
RECURSIVE SplitLines(_, _)
SplitLines(t, line) ==
    IF t = <<>> THEN <<line>>
    ELSE IF Head(t) = "\n" THEN <<line>> \o SplitLines(Tail(t), <<>>)
    ELSE SplitLines(Tail(t), Append(line, Head(t)))

\* the heading pattern tried on one line alone
IsHeadingLine(line) == TitleGroupStart(line, 1) # 0
HeadingText(line) == Strip(SubSeq(line, TitleGroupStart(line, 1), Len(line)))

\* the title by lines: the first heading line's text, else the stem
TitleByLines(t, p) ==
    LET lines == SplitLines(t, <<>>)
        K == {k \in DOMAIN lines : IsHeadingLine(lines[k])}
    IN  IF K = {} THEN Stem(p) ELSE HeadingText(lines[MinOf(K)])

\* C17 as claimed: the title of a record is the trimmed text of the first
\* line of its source that is a top-level heading (one '#', white space,
\* text), and the file name without extension when no line is one.
C17_TitleFromHeadingLine ==
    (pc = "done" /\ Len(out) = 1) =>
        out[1].title = TitleByLines(out[1].text, PathA)

(***************************************************************************)
(* Claims about several grade mentions and about the two scorers.          *)
(***************************************************************************)
\* the mentions that fit the grade pattern, with the score of their letter
FittingMentions ==
    (<<"G","r","a","d","e",":","A"," ">> :> 9500) @@
    (<<"g","r","a","d","e","-","b","\n">> :> 8500) @@
    (<<"s","e","l","f","-","g","r","a","d","e",":"," ","C"," ">> :> 7500) @@
    (<<"G","r","a","d","e"," ",":"," ","F","\n">> :> 4000)

IsPrefix(c, t) == Len(c) <= Len(t) /\ SubSeq(t, 1, Len(c)) = c

\* the score of the first mention of t that fits, -100 when none does
RECURSIVE FirstFitting(_)
FirstFitting(t) ==
    IF t = <<>> THEN -100
    ELSE LET c == CHOOSE x \in MentionVocab : IsPrefix(x, t)
             rest == SubSeq(t, Len(c) + 1, Len(t))
         IN  IF c \in DOMAIN FittingMentions THEN FittingMentions[c]
             ELSE FirstFitting(rest)

\* C18: the self-grade score is the score of the first mention, in text
\* order, that fits the grade pattern; the mentions after it, whatever
\* their letters, do not change it.
C18_FirstMentionWins ==
    GradeDone => self_grade_score = FirstFitting(md)

C18_Witness ==
    /\ GradeDone
    /\ md = <<"G","r","a","d","e"," ","D"," ">>
            \o <<"g","r","a","d","e","-","b","\n">>
            \o <<"G","r","a","d","e",":","A"," ">>
    /\ self_grade_score = 8500

\* C19 as claimed: for every text the single-report scorer returns the
\* severity counts, severity score, self-grade score and final score that
\* the dashboard's functions compute.
C19_ScorersAgree ==
    pc = "compared" =>
        /\ scanner.severity_counts = sev
        /\ scanner.severity_score = severity_score
        /\ scanner.self_grade_score = self_grade_score
        /\ scanner.final_score = final_score

(***************************************************************************)
(* Claims about rounding a final score to an integer.                      *)
(***************************************************************************)
\* C20: a final score has at most one decimal place and its tenths digit
\* is even, so it is never halfway between two integers, and rounding it
\* half-up (Math.round, the dashboard's filter and badge) or half-to-even
\* (int(round()), the single-report badge) gives the same integer.
C20_RoundingsAgree ==
    pc = "scored" =>
        /\ final_score % 10 = 0
        /\ ((final_score \div 10) % 10) % 2 = 0
        /\ final_score % 100 # 50
        /\ Math_round(final_score) = int_round(final_score)

C20_Witness ==
    /\ pc = "scored"
    /\ sev = Counts(0, 0, 1, 0)
    /\ self_grade_score = 9500
    /\ final_score = 9380
    /\ Math_round(final_score) = 94

(***************************************************************************)
(* Claims about the dashboard page.                                        *)
(***************************************************************************)
Shown == Range(list)
AllItems == DOMAIN DATA
OnPage == pc = "page"

\* C11: no event of the page (typing a query, moving the slider, clicking
\* a chip, changing the sort key, selecting an item) changes DATA: it keeps
\* the records it had, in the same order.
C11_DataNeverMutated == [][DATA' = DATA]_vars

C11_Witness ==
    /\ OnPage
    /\ q_value = <<"A",".">>
    /\ sortBy = "name"
    /\ list = <<2, 1>>
    /\ selected = 2
    /\ DATA[1].title = <<"B","e","t","a">>
    /\ DATA[2].title = <<"a">>

\* the integer nearest to a score given in hundredths
NearestInteger(x) == CHOOSE n \in 0..101 : 2 * (100 * n - x) \in (-100)..100

\* C12: with no other filter in effect, the records shown are exactly those
\* whose final score, rounded to the nearest integer, is at least minScore;
\* a record whose rounded score equals minScore is shown.
C12_MinScoreInclusive ==
    (OnPage /\ q_value = <<>> /\ chips = {}) =>
        Shown = {i \in AllItems : NearestInteger(DATA[i].final_score) >= minScore}

C12_Witness ==
    /\ OnPage
    /\ q_value = <<>>
    /\ chips = {}
    /\ minScore = 45
    /\ DATA[3].final_score = 4480
    /\ Shown = {1, 3}

\* C13 as claimed: a record matches the severity filter if and only if at
\* least one level of the active set has a non-zero count in it.
C13_SeverityAny ==
    (OnPage /\ q_value = <<>> /\ minScore = 1) =>
        Shown = {i \in AllItems : \E c \in chips : DATA[i].severity[c] > 0}

\* C13: with at least one chip active, the records shown are exactly those
\* in which some active level has a non-zero count (not necessarily every
\* active level); with no chip active the severity filter is not applied
\* and every record is shown.
C13_SeverityAnyWhenActive ==
    (OnPage /\ q_value = <<>> /\ minScore = 1) =>
        Shown = IF chips = {} THEN AllItems
                ELSE {i \in AllItems : \E c \in chips : DATA[i].severity[c] > 0}

C13_Witness ==
    /\ OnPage
    /\ q_value = <<>>
    /\ minScore = 1
    /\ chips = {"critical", "high"}
    /\ DATA[2].severity["high"] = 0
    /\ DATA[3].severity["critical"] = 0
    /\ Shown = {2, 3}

\* the three predicates of the page on the record at index i
MatchesSearch(i) == SearchKeeps(DATA[i], toLowerCase(q_value))
MatchesScore(i) == ScoreKeeps(DATA[i], minScore)
MatchesSeverity(i) == chips = {} \/ SeverityKeeps(DATA[i], chips)

\* C14: the array left by the filters holds exactly the records that
\* satisfy the search, min-score and severity predicates together, in the
\* order they have in DATA, and applying the three filters in the opposite
\* order gives the same array.
C14_FiltersCompose ==
    OnPage =>
        /\ arr = SelectSeq(Indexes(DATA),
                    LAMBDA i : MatchesSearch(i) /\ MatchesScore(i) /\ MatchesSeverity(i))
        /\ arr = SelectSeq(SelectSeq(SelectSeq(Indexes(DATA),
                    LAMBDA i : MatchesSeverity(i)),
                    LAMBDA i : MatchesScore(i)),
                    LAMBDA i : MatchesSearch(i))

C14_Witness ==
    /\ OnPage
    /\ q_value = <<"A",".">>
    /\ minScore = 45
    /\ chips = {"critical"}
    /\ ~MatchesSearch(3) /\ MatchesScore(3)
    /\ ~MatchesScore(2) /\ MatchesSearch(2) /\ MatchesSeverity(2)
    /\ ~MatchesSeverity(1) /\ MatchesSearch(1) /\ MatchesScore(1)
    /\ arr = <<>>

IsPermutation(s, t) ==
    /\ Len(s) = Len(t)
    /\ \A x \in Range(s) \cup Range(t) :
        Cardinality({k \in DOMAIN s : s[k] = x}) = Cardinality({k \in DOMAIN t : t[k] = x})

\* C15 as claimed: the list is a permutation of the filtered records; under
\* the sort key "score" it is in non-increasing order of final score, under
\* "name" in ascending dictionary order of title, under "newest" in
\* non-increasing order of modification time.
C15_SortOrders ==
    OnPage =>
        /\ IsPermutation(list, arr)
        /\ \A k \in 1..(Len(list) - 1) :
            LET a == DATA[list[k]]
                b == DATA[list[k + 1]]
            IN  /\ sortBy = "score" => a.final_score >= b.final_score
                /\ sortBy = "name" => localeCompare(a.title, b.title) <= 0
                /\ sortBy = "newest" => a.mtime >= b.mtime

\* q, without regard to case, is a substring of t
IsSubstringIgnoringCase(q, t) ==
    \E i \in 0..(Len(t) - Len(q)) :
        \A k \in 1..Len(q) : Lower(q[k]) = Lower(t[i + k])

\* C16: with no other filter in effect, the records shown are exactly those
\* whose title or file name contains the query without regard to case; the
\* empty query shows every record, and a query found only in the raw text
\* of a record does not show it.
C16_SearchTitleOrFilename ==
    (OnPage /\ minScore = 1 /\ chips = {}) =>
        /\ Shown = {i \in AllItems :
                        \/ IsSubstringIgnoringCase(q_value, DATA[i].title)
                        \/ IsSubstringIgnoringCase(q_value, DATA[i].filename)}
        /\ q_value = <<>> => Shown = AllItems

C16_Witness ==
    /\ OnPage
    /\ minScore = 1
    /\ chips = {}
    /\ q_value = <<"c","r","i","t","i","c","a","l">>
    /\ IsSubstringIgnoringCase(q_value, DATA[2].text)
    /\ Shown = {}

====
